---- MODULE Spec2Model ----
(***************************************************************************)
(* A model of app.py, the interactive lookup tool over a table of chemical *)
(* elements and a table of groups.                                         *)
(*                                                                         *)
(* An element is a Python dict: here a function from the field names it    *)
(* has to strings.  A group is a record with a label cs and a member list  *)
(* elements.  The Czech literals of the source are written without         *)
(* diacritics, since the module's strings are ASCII.  A dict's key order   *)
(* is not modelled.                                                        *)
(*                                                                         *)
(* Four specifications share the variables:                                *)
(*   SpecFind     direct calls of find_group on any small group table      *)
(*   SpecQuery    direct calls of search_element and                       *)
(*                calculate_average_mass, the group table replaced         *)
(*                between calls                                            *)
(*   SpecReports  direct calls of the three report generators              *)
(*   Spec         the session loop of main                                 *)
(***************************************************************************)
EXTENDS Integers, Sequences, FiniteSets, TLC

VARIABLES
    elements,   \* main's `elements`: the element collection, a sequence of dicts
    groups,     \* main's `groups`: the group table, a sequence of group records
    pc,         \* where main is: "menu", "quit" (left the loop by break), "crashed"
    call,       \* the most recent call and its arguments
    ret,        \* what that call returned (None for a call that returns nothing)
    exc,        \* the exception that call raised, "none" when it returned
    out,        \* the diagnostics that call printed, in order
    doc,        \* the document that call wrote, NoDoc when it wrote none
    findCalls,  \* how many times that call invoked find_group
    scanned,    \* how many elements that call read from the collection
    cached      \* the indices of the elements whose Group a search_element call stored

vars == <<elements, groups, pc, call, ret, exc, out, doc, findCalls, scanned, cached>>

----------------------------------------------------------------------------
(* Bounds of the model *)

\* the longest element collection
MaxElems == 2
\* the longest group table
MaxGroups == 2
\* the most lines typed at export_to_json's prompt before the closing empty line
MaxLines == 2

----------------------------------------------------------------------------
(* Python values *)

None == "<None>"
NoDoc == "<no document>"
EmptyDict == [f \in {} |-> ""]

\* Python's truth value of a str or None
Truthy(v) == v # None /\ v # ""

\* dict.get(key): the value, None when the key is absent
Get(d, key) == IF key \in DOMAIN d THEN d[key] ELSE None

\* d[key] = value on a dict
SetItem(d, key, value) ==
    [f \in DOMAIN d \cup {key} |-> IF f = key THEN value ELSE d[f]]

\* x in list
InList(x, list) == \E k \in 1..Len(list) : list[k] = x

UnknownGroup == "Neznama skupina"

----------------------------------------------------------------------------
(* find_group *)

RECURSIVE find_group_from(_, _, _)
\* the for loop of find_group from the i-th group on
find_group_from(table, symbol, i) ==
    IF i > Len(table) THEN UnknownGroup
    ELSE IF InList(symbol, table[i].elements) THEN table[i].cs
    ELSE find_group_from(table, symbol, i + 1)

RECURSIVE find_group_last_from(_, _, _)
find_group_last_from(table, symbol, i) ==
    IF i < 1 THEN UnknownGroup
    ELSE IF InList(symbol, table[i].elements) THEN table[i].cs
    ELSE find_group_last_from(table, symbol, i - 1)

\* a find_group that keeps the last matching group instead of returning at the first
find_group_last(table, symbol) == find_group_last_from(table, symbol, Len(table))

find_group(table, symbol) == find_group_from(table, symbol, 1)

----------------------------------------------------------------------------
(* search_element *)

\* the result of a call: the collection after it, what it returned, raised and printed
Outcome(elems, r, e, o, fc, sc) ==
    [elements |-> elems, ret |-> r, exc |-> e, out |-> o, doc |-> NoDoc,
     findCalls |-> fc, scanned |-> sc]

\* a search_element that resolves the group on every match, cached or not
search_hit_always(elems, table, i) ==
    LET element == elems[i]
        printed == <<"--- Vysledek hledani ---">>
    IN  IF "Symbol" \notin DOMAIN element
        THEN Outcome(elems, None, "KeyError", printed, 0, i)
        ELSE LET resolved == SetItem(element, "Group", find_group(table, element["Symbol"]))
             IN  Outcome([elems EXCEPT ![i] = resolved], resolved, "none", printed, 1, i)

\* a search_element that, on a match, stores the group of every element without one
search_hit_fill_all(elems, table, i) ==
    LET fill(e) == IF Truthy(Get(e, "Group")) \/ "Symbol" \notin DOMAIN e THEN e
                   ELSE SetItem(e, "Group", find_group(table, e["Symbol"]))
        filled == [j \in 1..Len(elems) |-> fill(elems[j])]
    IN  Outcome(filled, filled[i], "none", <<"--- Vysledek hledani ---">>,
                IF filled[i] # elems[i] THEN 1 ELSE 0, i)

\* lines 52-55: the element at index i matched
search_hit(elems, table, i) ==
    LET element == elems[i]
        printed == <<"--- Vysledek hledani ---">>
    IN  IF Truthy(Get(element, "Group"))
        THEN Outcome(elems, element, "none", printed, 0, i)
        ELSE IF "Symbol" \notin DOMAIN element
        THEN Outcome(elems, None, "KeyError", printed, 0, i)
        ELSE LET resolved == SetItem(element, "Group", find_group(table, element["Symbol"]))
             IN  Outcome([elems EXCEPT ![i] = resolved], resolved, "none", printed, 1, i)

\* line 51: does the element match
search_match(element, criterion, value) == Get(element, criterion) = value

RECURSIVE search_from(_, _, _, _, _)
\* the for loop of search_element from the i-th element on
search_from(elems, table, criterion, value, i) ==
    IF i > Len(elems)
    THEN Outcome(elems, EmptyDict, "none", <<"Prvek nebyl nalezen.">>, 0, Len(elems))
    ELSE IF search_match(elems[i], criterion, value)
    THEN search_hit(elems, table, i)
    ELSE search_from(elems, table, criterion, value, i + 1)

RECURSIVE search_last_from(_, _, _, _, _)
search_last_from(elems, table, criterion, value, i) ==
    IF i < 1
    THEN Outcome(elems, EmptyDict, "none", <<"Prvek nebyl nalezen.">>, 0, Len(elems))
    ELSE IF search_match(elems[i], criterion, value)
    THEN search_hit(elems, table, i)
    ELSE search_last_from(elems, table, criterion, value, i - 1)

\* a search_element that scans the collection from its end
search_element_last(elems, table, criterion, value) ==
    search_last_from(elems, table, criterion, value, Len(elems))

\* a search_element that hands back an empty record for a match as well
search_element_blank(elems, table, criterion, value) ==
    [search_from(elems, table, criterion, value, 1) EXCEPT !.ret = EmptyDict]

search_element(elems, table, criterion, value) ==
    search_from(elems, table, criterion, value, 1)

\* display_element: what it prints for the element handed to it
display_element(element) ==
    IF element # EmptyDict
    THEN <<"--- Vlastnosti prvku ---", "--- Konec vypisu ---">>
    ELSE <<"Prvek nenalezen.">>

----------------------------------------------------------------------------
(* calculate_average_mass *)

\* Numbers.  float() of a decimal literal is kept exact, as its digits m and the
\* number e of digits after the point (m / 10^e); a mean is an exact fraction
\* num/den in lowest terms.  The rounding of binary floating point is not modelled.
Digits == {"0", "1", "2", "3", "4", "5", "6", "7", "8", "9"}

DigitVal(c) ==
    CASE c = "0" -> 0 [] c = "1" -> 1 [] c = "2" -> 2 [] c = "3" -> 3 [] c = "4" -> 4
      [] c = "5" -> 5 [] c = "6" -> 6 [] c = "7" -> 7 [] c = "8" -> 8 [] c = "9" -> 9

RECURSIVE Pow10(_)
Pow10(n) == IF n = 0 THEN 1 ELSE 10 * Pow10(n - 1)

RECURSIVE Gcd(_, _)
Gcd(a, b) == IF b = 0 THEN a ELSE Gcd(b, a % b)

Zero == [num |-> 0, den |-> 1]

Fraction(n, d) == LET g == Gcd(n, d) IN [num |-> n \div g, den |-> d \div g]

RECURSIVE parse_digits(_, _, _, _, _)
\* reads the literal s left to right: m the digits so far, e the digits after the
\* point, n how many digits were read, dot whether the point was passed
parse_digits(s, m, e, n, dot) ==
    IF s = "" THEN [ok |-> n > 0, m |-> m, e |-> e]
    ELSE LET c == Head(s) IN
         IF c \in Digits
         THEN parse_digits(Tail(s), 10 * m + DigitVal(c), IF dot THEN e + 1 ELSE e, n + 1, dot)
         ELSE IF c = "." /\ ~dot
         THEN parse_digits(Tail(s), m, e, n, TRUE)
         ELSE [ok |-> FALSE, m |-> 0, e |-> 0]

\* float(s) for an unsigned decimal literal; ok is FALSE where float raises ValueError
\* (signs, exponents and surrounding blanks, which float also reads, are outside the
\* strings of this model)
float(s) == parse_digits(s, 0, 0, 0, FALSE)

RECURSIVE MaxScale(_)
MaxScale(masses) ==
    IF masses = <<>> THEN 0
    ELSE LET rest == MaxScale(Tail(masses))
         IN  IF Head(masses).e > rest THEN Head(masses).e ELSE rest

RECURSIVE SumAt(_, _)
\* the sum of the masses in units of 10^-scale
SumAt(masses, scale) ==
    IF masses = <<>> THEN 0
    ELSE Head(masses).m * Pow10(scale - Head(masses).e) + SumAt(Tail(masses), scale)

\* statistics.mean: the exact sum divided by the count
mean(masses) ==
    LET scale == MaxScale(masses)
    IN  Fraction(SumAt(masses, scale), Len(masses) * Pow10(scale))

RECURSIVE filter_masses(_, _, _, _, _)
\* the list comprehension of lines 85 and 87 from the i-th element on: acc the
\* masses kept so far.  element[field] raises KeyError when the key is absent.
filter_masses(elems, field, wanted, i, acc) ==
    IF i > Len(elems) THEN [exc |-> "none", masses |-> acc, scanned |-> Len(elems)]
    ELSE LET element == elems[i] IN
         IF field \notin DOMAIN element
         THEN [exc |-> "KeyError", masses |-> acc, scanned |-> i]
         ELSE IF element[field] # wanted
         THEN filter_masses(elems, field, wanted, i + 1, acc)
         ELSE IF "AtomicMass" \notin DOMAIN element
         THEN [exc |-> "KeyError", masses |-> acc, scanned |-> i]
         ELSE LET mass == float(element["AtomicMass"]) IN
              IF ~mass.ok
              THEN [exc |-> "ValueError", masses |-> acc, scanned |-> i]
              ELSE filter_masses(elems, field, wanted, i + 1,
                                 Append(acc, [m |-> mass.m, e |-> mass.e]))

\* lines 92-98: the mean of the masses kept, or the failure value
average_of(elems, filtered) ==
    IF filtered.exc # "none"
    THEN Outcome(elems, None, filtered.exc, <<>>, 0, filtered.scanned)
    ELSE IF filtered.masses # <<>>
    THEN Outcome(elems, mean(filtered.masses), "none",
                 <<"Prumerna relativni atomova hmotnost: {avg_mass:.2f}">>, 0, filtered.scanned)
    ELSE Outcome(elems, Zero, "none",
                 <<"Zadne prvky k vypoctu pro dane kriterium.">>, 0, filtered.scanned)

calculate_average_mass(elems, group, period) ==
    IF Truthy(group) /\ Truthy(period)
    THEN Outcome(elems, Zero, "none",
                 <<"Chyba: Zadejte bud skupinu, nebo periodu, ne oboji.">>, 0, 0)
    ELSE IF Truthy(group)
    THEN average_of(elems, filter_masses(elems, "Group", group, 1, <<>>))
    ELSE IF Truthy(period)
    THEN average_of(elems, filter_masses(elems, "Period", period, 1, <<>>))
    ELSE Outcome(elems, Zero, "none", <<"Musite zadat bud skupinu, nebo periodu.">>, 0, 0)

----------------------------------------------------------------------------
(* The report generators.  Each builds its content, then opens its file for
   writing: `writable` says whether that open succeeds (it raises OSError when
   not, and nothing is written). *)

\* the result of a generator: it returns None and leaves the collection alone
Report(elems, e, o, d, sc) ==
    [elements |-> elems, ret |-> None, exc |-> e, out |-> o, doc |-> d,
     findCalls |-> 0, scanned |-> sc]

\* open(file_path, 'w') and write: the document and the message, or OSError
write_file(elems, content, message, writable, sc) ==
    IF writable THEN Report(elems, "none", <<message>>, content, sc)
    ELSE Report(elems, "OSError", <<>>, NoDoc, sc)

HasKeys(element, keys) == keys \subseteq DOMAIN element

HtmlHead ==
    "<html>\n<body>\n<h1>Periodic Table of Elements</h1>\n<table border='1'>\n<tr>\n"
    \o "<th>Znacka</th>\n<th>Nazev</th>\n<th>Protonove cislo</th>\n</tr>\n"

RECURSIVE html_rows(_, _, _)
\* the for loop of generate_html from the i-th element on, html_content so far
html_rows(elems, i, content) ==
    IF i > Len(elems) THEN [exc |-> "none", content |-> content, scanned |-> Len(elems)]
    ELSE IF ~HasKeys(elems[i], {"Symbol", "Element", "AtomicNumber"})
    THEN [exc |-> "KeyError", content |-> content, scanned |-> i]
    ELSE html_rows(elems, i + 1,
            content \o "<tr>\n<td>" \o elems[i]["Symbol"] \o "</td>\n<td>"
                    \o elems[i]["Element"] \o "</td>\n<td>"
                    \o elems[i]["AtomicNumber"] \o "</td>\n</tr>")

generate_html(elems, writable) ==
    LET built == html_rows(elems, 1, HtmlHead) IN
    IF built.exc # "none" THEN Report(elems, built.exc, <<>>, NoDoc, built.scanned)
    ELSE write_file(elems, built.content \o "</table></body></html>",
                    "HTML soubor 'periodic_table.html' byl vygenerovan.",
                    writable, built.scanned)

MdHead == "# Prehled chemickych prvku\n\n"

\* a section whose heading names the element before its symbol
md_section_swapped(element) ==
    "## " \o element["Element"] \o " (" \o element["Symbol"] \o ")\n"
    \o "- Protonove cislo: " \o element["AtomicNumber"] \o "\n"
    \o "- Relativni atomova hmotnost: " \o element["AtomicMass"] \o "\n\n"

\* lines 135-137: the section of one element
md_section(element) ==
    "## " \o element["Symbol"] \o " (" \o element["Element"] \o ")\n"
    \o "- Protonove cislo: " \o element["AtomicNumber"] \o "\n"
    \o "- Relativni atomova hmotnost: " \o element["AtomicMass"] \o "\n\n"

RECURSIVE md_sections(_, _, _)
\* the for loop of generate_markdown from the i-th element on, md_content so far
md_sections(elems, i, content) ==
    IF i > Len(elems) THEN [exc |-> "none", content |-> content, scanned |-> Len(elems)]
    ELSE IF ~HasKeys(elems[i], {"Symbol", "Element", "AtomicNumber", "AtomicMass"})
    THEN [exc |-> "KeyError", content |-> content, scanned |-> i]
    ELSE md_sections(elems, i + 1, content \o md_section(elems[i]))

generate_markdown(elems, writable) ==
    LET built == md_sections(elems, 1, MdHead) IN
    IF built.exc # "none" THEN Report(elems, built.exc, <<>>, NoDoc, built.scanned)
    ELSE write_file(elems, built.content,
                    "Markdown soubor 'group_overview.md' byl vygenerovan.",
                    writable, built.scanned)

Whitespace == {" ", "\t"}

RECURSIVE lstrip(_)
lstrip(s) == IF s # "" /\ Head(s) \in Whitespace THEN lstrip(Tail(s)) ELSE s

RECURSIVE rstrip(_)
rstrip(s) ==
    IF s # "" /\ SubSeq(s, Len(s), Len(s)) \in Whitespace
    THEN rstrip(SubSeq(s, 1, Len(s) - 1))
    ELSE s

\* str.strip()
strip(s) == rstrip(lstrip(s))

RECURSIVE read_symbols(_, _)
\* the while loop of lines 117-121 on the lines typed: it ends at the first line
\* that is empty once stripped (every prompt is answered: the typed lines are
\* followed by an empty one)
read_symbols(lines, selected_symbols) ==
    IF lines = <<>> THEN selected_symbols
    ELSE LET symbol == strip(Head(lines)) IN
         IF symbol = "" THEN selected_symbols
         ELSE read_symbols(Tail(lines), Append(selected_symbols, symbol))

RECURSIVE select_by_request(_, _, _, _)
\* an export that walks the requested symbols and looks each one up
select_by_request(elems, selected_symbols, i, acc) ==
    IF i > Len(selected_symbols)
    THEN [exc |-> "none", selected |-> acc, scanned |-> Len(elems)]
    ELSE select_by_request(elems, selected_symbols, i + 1,
            acc \o SelectSeq(elems, LAMBDA e : Get(e, "Symbol") = selected_symbols[i]))

RECURSIVE select_by_symbol(_, _, _, _)
\* the list comprehension of line 124 from the i-th element on
select_by_symbol(elems, selected_symbols, i, acc) ==
    IF i > Len(elems) THEN [exc |-> "none", selected |-> acc, scanned |-> Len(elems)]
    ELSE IF "Symbol" \notin DOMAIN elems[i]
    THEN [exc |-> "KeyError", selected |-> acc, scanned |-> i]
    ELSE select_by_symbol(elems, selected_symbols, i + 1,
            IF InList(elems[i]["Symbol"], selected_symbols)
            THEN Append(acc, elems[i]) ELSE acc)

\* export_to_json: the document is the JSON array written, as the sequence of its
\* objects (json.dump of dicts of strings loses nothing; its text is not modelled)
export_to_json(elems, lines, writable) ==
    LET selected_symbols == read_symbols(lines, <<>>)
        picked == select_by_symbol(elems, selected_symbols, 1, <<>>)
    IN  IF picked.exc # "none" THEN Report(elems, picked.exc, <<>>, NoDoc, picked.scanned)
        ELSE write_file(elems, picked.selected,
                "JSON soubor 'selected_elements.json' byl uspesne exportovan s {len(selected_elements)} prvky.",
                writable, picked.scanned)

----------------------------------------------------------------------------
(* The data the model runs on *)

AllFields == {"Symbol", "Element", "AtomicNumber", "AtomicMass", "Group", "Period"}

\* Three rows of an element table.  Helium's Group cell is empty, as the cells of
\* elements outside the numbered groups are; lithium's number is zero-padded.
RowH ==
    [Symbol |-> "H", Element |-> "Hydrogen", AtomicNumber |-> "1",
     AtomicMass |-> "1.008", Group |-> "1", Period |-> "1"]
RowHe ==
    [Symbol |-> "He", Element |-> "Helium", AtomicNumber |-> "2",
     AtomicMass |-> "4.0026", Group |-> "", Period |-> "1"]
RowLi ==
    [Symbol |-> "Li", Element |-> "Lithium", AtomicNumber |-> "03",
     AtomicMass |-> "6.94", Group |-> "1", Period |-> "2"]

RowPool == {RowH, RowHe, RowLi}

\* a dict without one of its keys
Without(d, key) == [f \in DOMAIN d \ {key} |-> d[f]]

\* Elements as the data model has them: every field, Group present or absent
ElementPool == RowPool \cup {Without(r, "Group") : r \in RowPool}

SeqsUpTo(S, n) == UNION {[1..k -> S] : k \in 0..n}

\* Symbol is unique across a collection (an element without fields has none)
UniqueSymbols(c) ==
    \A i, j \in 1..Len(c) : i # j => Get(c[i], "Symbol") # Get(c[j], "Symbol")

\* the collections of at most MaxElems elements of a pool
Collections(pool) == {c \in SeqsUpTo(pool, MaxElems) : UniqueSymbols(c)}

\* Groups, generated: every label with every member list
Labels == {"", "Alkalicke kovy", "Nekovy"}
MemberLists == {<<>>, <<"H">>, <<"Li">>, <<"H", "Li">>}
GroupRecords == [cs : Labels, elements : MemberLists]
AnyTables == SeqsUpTo(GroupRecords, MaxGroups)

\* Two groups that overlap on helium, one of them with an empty label
GroupNekovy == [cs |-> "Nekovy", elements |-> <<"H", "He">>]
GroupUnnamed == [cs |-> "", elements |-> <<"He", "Li">>]
GroupPool == {GroupNekovy, GroupUnnamed}

\* the tables of at most MaxGroups distinct groups of the pool, in any order
PoolTables ==
    {t \in SeqsUpTo(GroupPool, MaxGroups) : \A i, j \in 1..Len(t) : i # j => t[i] # t[j]}

Symbols == {"H", "He", "Li"}
Criteria == {"Symbol", "AtomicNumber", "Group"}
SearchValues == {"H", "3", "03", "1", ""}
GroupArgs == {"", "1", "Nekovy"}
PeriodArgs == {"", "1"}
InvalidChoices == {"7", ""}
RawLines == {"H", " Li ", "Xx"}
TypedLines == SeqsUpTo(RawLines, MaxLines)

----------------------------------------------------------------------------
(* Loading *)

MissingFile == [exists |-> FALSE]

\* an element table file: its header columns and its rows
CsvFiles ==
    {MissingFile} \cup
    {[exists |-> TRUE, header |-> h, rows |-> r] :
        h \in {AllFields, AllFields \ {"Group"}}, r \in Collections(RowPool)}

\* a group table file: the JSON array it holds
JsonFiles == {MissingFile} \cup {[exists |-> TRUE, value |-> t] : t \in PoolTables}

\* load_elements: csv.DictReader gives every row the header's keys; a missing
\* file gives the empty list
load_elements(file) ==
    IF ~file.exists THEN <<>>
    ELSE [i \in 1..Len(file.rows) |-> [f \in file.header |-> file.rows[i][f]]]

\* load_groups: a missing file gives {}, which iterates as the empty table does
load_groups(file) == IF ~file.exists THEN <<>> ELSE file.value

\* what the two loads print: a line for each missing file
load_messages(csv, json) ==
    (IF csv.exists THEN <<>> ELSE <<"CSV soubor nenalezen.">>)
    \o (IF json.exists THEN <<>> ELSE <<"JSON soubor nenalezen.">>)

----------------------------------------------------------------------------
(* Steps *)

\* the state after a call with the given outcome, in a harness that goes on
Returned(c, r) ==
    /\ call' = c
    /\ elements' = r.elements
    /\ ret' = r.ret
    /\ exc' = r.exc
    /\ out' = r.out
    /\ doc' = r.doc
    /\ findCalls' = r.findCalls
    /\ scanned' = r.scanned

\* line 54's store: the matched element's index joins `cached` when the call resolved
CachedAfter(r) == IF r.findCalls > 0 THEN cached \cup {r.scanned} ELSE cached

NoCall == [fn |-> "none"]

InitCommon ==
    /\ pc = "menu"
    /\ call = NoCall
    /\ ret = None
    /\ exc = "none"
    /\ doc = NoDoc
    /\ findCalls = 0
    /\ scanned = 0
    /\ cached = {}

(* Direct calls *)

CallFindGroup ==
    \E symbol \in Symbols :
        /\ call' = [fn |-> "find_group", symbol |-> symbol]
        /\ ret' = find_group(groups, symbol)
        /\ exc' = "none"
        /\ out' = <<>>
        /\ doc' = NoDoc
        /\ findCalls' = 1
        /\ scanned' = 0
        /\ UNCHANGED <<elements, groups, pc, cached>>

CallSearchElement ==
    \E criterion \in Criteria, value \in SearchValues :
        LET r == search_element(elements, groups, criterion, value) IN
        /\ Returned([fn |-> "search_element", criterion |-> criterion, value |-> value], r)
        /\ cached' = CachedAfter(r)
        /\ UNCHANGED <<groups, pc>>

CallCalculateAverageMass ==
    \E group \in GroupArgs \cup {None}, period \in PeriodArgs \cup {None} :
        LET r == calculate_average_mass(elements, group, period) IN
        /\ Returned([fn |-> "calculate_average_mass", group |-> group, period |-> period], r)
        /\ UNCHANGED <<groups, pc, cached>>

\* the caller replaces the group table between two calls
ReplaceGroups ==
    \E table \in PoolTables :
        /\ table # groups
        /\ groups' = table
        /\ call' = [fn |-> "replace_groups"]
        /\ ret' = None
        /\ exc' = "none"
        /\ out' = <<>>
        /\ doc' = NoDoc
        /\ findCalls' = 0
        /\ scanned' = 0
        /\ UNCHANGED <<elements, pc, cached>>

CallGenerateHtml ==
    \E writable \in BOOLEAN :
        /\ Returned([fn |-> "generate_html"], generate_html(elements, writable))
        /\ UNCHANGED <<groups, pc, cached>>

CallExportToJson ==
    \E lines \in TypedLines, writable \in BOOLEAN :
        /\ Returned([fn |-> "export_to_json", lines |-> lines],
                    export_to_json(elements, lines, writable))
        /\ UNCHANGED <<groups, pc, cached>>

CallGenerateMarkdown ==
    \E writable \in BOOLEAN :
        /\ Returned([fn |-> "generate_markdown", selected |-> elements],
                    generate_markdown(elements, writable))
        /\ UNCHANGED <<groups, pc, cached>>

InitFind ==
    /\ InitCommon
    /\ out = <<>>
    /\ elements \in {<<>>, <<RowH, RowHe>>}
    /\ groups \in AnyTables

SpecFind == InitFind /\ [][CallFindGroup]_vars

InitQuery ==
    /\ InitCommon
    /\ out = <<>>
    /\ elements \in Collections(ElementPool \cup {EmptyDict})
    /\ groups \in PoolTables

NextQuery == CallSearchElement \/ CallCalculateAverageMass \/ ReplaceGroups

SpecQuery == InitQuery /\ [][NextQuery]_vars

InitReports ==
    /\ InitCommon
    /\ out = <<>>
    /\ elements \in Collections(ElementPool)
    /\ groups = <<>>

NextReports == CallGenerateHtml \/ CallExportToJson \/ CallGenerateMarkdown

SpecReports == InitReports /\ [][NextReports]_vars

----------------------------------------------------------------------------
(* The session loop of main.  One step is one turn of the loop: display_menu, the
   branch of the choice with every call it makes, and the closing input().  An
   exception of a call is caught nowhere: it ends main. *)

\* the state after a turn of the loop whose call had the given outcome
Turn(c, r) ==
    /\ pc = "menu"
    /\ Returned(c, r)
    /\ pc' = IF r.exc = "none" THEN "menu" ELSE "crashed"
    /\ groups' = groups

\* a turn of the loop that calls nothing and prints a message
Message(c, text, next) ==
    /\ pc = "menu"
    /\ call' = c
    /\ ret' = None
    /\ exc' = "none"
    /\ out' = <<text>>
    /\ doc' = NoDoc
    /\ findCalls' = 0
    /\ scanned' = 0
    /\ pc' = next
    /\ UNCHANGED <<elements, groups, cached>>

\* lines 154-155 and 159-160: search_element, then display_element on its result
search_and_display(criterion, value) ==
    LET r == search_element(elements, groups, criterion, value) IN
    IF r.exc # "none" THEN r ELSE [r EXCEPT !.out = r.out \o display_element(r.ret)]

\* choice '1'
MenuSearch ==
    \E criterion \in Criteria, value \in SearchValues :
        LET r == search_and_display(criterion, value) IN
        /\ Turn([fn |-> "search_element", choice |-> "1",
                 criterion |-> criterion, value |-> value], r)
        /\ cached' = CachedAfter(r)

\* choice '2'
MenuDisplay ==
    \E symbol \in Symbols :
        LET r == search_and_display("Symbol", symbol) IN
        /\ Turn([fn |-> "search_element", choice |-> "2",
                 criterion |-> "Symbol", value |-> symbol], r)
        /\ cached' = CachedAfter(r)

\* choice '3': the two answers are stripped; main itself turns away both and neither
MenuAverage ==
    \E g \in GroupArgs, p \in PeriodArgs :
        LET group == strip(g)
            period == strip(p)
        IN  IF Truthy(group) /\ Truthy(period)
            THEN Message([fn |-> "main", choice |-> "3", group |-> group, period |-> period],
                         "Zadejte bud skupinu, nebo periodu, ne oboji.", "menu")
            ELSE IF Truthy(group)
            THEN /\ Turn([fn |-> "calculate_average_mass", choice |-> "3",
                          group |-> group, period |-> None],
                         calculate_average_mass(elements, group, None))
                 /\ cached' = cached
            ELSE IF Truthy(period)
            THEN /\ Turn([fn |-> "calculate_average_mass", choice |-> "3",
                          group |-> None, period |-> period],
                         calculate_average_mass(elements, None, period))
                 /\ cached' = cached
            ELSE Message([fn |-> "main", choice |-> "3", group |-> group, period |-> period],
                         "Musite zadat bud skupinu, nebo periodu.", "menu")

\* choice '4'
MenuHtml ==
    \E writable \in BOOLEAN :
        /\ Turn([fn |-> "generate_html", choice |-> "4"], generate_html(elements, writable))
        /\ cached' = cached

\* choice '5'
MenuExport ==
    \E lines \in TypedLines, writable \in BOOLEAN :
        /\ Turn([fn |-> "export_to_json", choice |-> "5", lines |-> lines],
                export_to_json(elements, lines, writable))
        /\ cached' = cached

RECURSIVE filter_group(_, _, _, _)
\* the list comprehension of line 184 from the i-th element on
filter_group(elems, group, i, acc) ==
    IF i > Len(elems) THEN [exc |-> "none", selected |-> acc, scanned |-> Len(elems)]
    ELSE IF "Group" \notin DOMAIN elems[i]
    THEN [exc |-> "KeyError", selected |-> acc, scanned |-> i]
    ELSE filter_group(elems, group, i + 1,
                      IF elems[i]["Group"] = group THEN Append(acc, elems[i]) ELSE acc)

\* choice '6': the elements of the group typed, then generate_markdown on them
MenuMarkdown ==
    \E group \in GroupArgs, writable \in BOOLEAN :
        LET picked == filter_group(elements, group, 1, <<>>)
            c == [fn |-> "generate_markdown", choice |-> "6", group |-> group]
        IN  /\ IF picked.exc # "none"
               THEN Turn(c, Report(elements, picked.exc, <<>>, NoDoc, picked.scanned))
               ELSE Turn(c, [generate_markdown(picked.selected, writable)
                                EXCEPT !.elements = elements])
            /\ cached' = cached

\* choice '0'
MenuQuit == Message([fn |-> "main", choice |-> "0"], "Ukoncuji program.", "quit")

\* any other choice
MenuInvalid ==
    \E choice \in InvalidChoices :
        Message([fn |-> "main", choice |-> choice], "Neplatna volba, zkuste to znovu.", "menu")

Init ==
    /\ InitCommon
    /\ \E csv \in CsvFiles, json \in JsonFiles :
        /\ elements = load_elements(csv)
        /\ groups = load_groups(json)
        /\ out = load_messages(csv, json)

Next ==
    \/ MenuSearch
    \/ MenuDisplay
    \/ MenuAverage
    \/ MenuHtml
    \/ MenuExport
    \/ MenuMarkdown
    \/ MenuQuit
    \/ MenuInvalid

Spec == Init /\ [][Next]_vars

----------------------------------------------------------------------------
(* Properties *)

\* the indices of the elements whose field `criterion` is the string `value`
Hits(elems, criterion, value) ==
    {i \in 1..Len(elems) : criterion \in DOMAIN elems[i] /\ elems[i][criterion] = value}

\* the least member of a non-empty set of indices
Least(S) == CHOOSE i \in S : \A j \in S : i <= j

\* the indices of the groups whose member list holds the symbol
GroupsOf(table, symbol) ==
    {i \in 1..Len(table) : \E k \in 1..Len(table[i].elements) : table[i].elements[k] = symbol}

\* C1: a find_group call returns the label of the earliest group of the table that
\* holds the symbol, the unknown-group label when no group holds it, and leaves the
\* group table and the elements as they were.
C1_FindGroupFirstMatch ==
    [][call'.fn = "find_group" =>
        LET holding == GroupsOf(groups, call'.symbol) IN
        /\ groups' = groups
        /\ elements' = elements
        /\ exc' = "none"
        /\ ret' = IF holding = {} THEN "Neznama skupina" ELSE groups[Least(holding)].cs]_vars

\* find_group answered for a symbol that two groups with different labels hold
C1_Witness ==
    /\ call.fn = "find_group"
    /\ Len(groups) = 2
    /\ GroupsOf(groups, call.symbol) = {1, 2}
    /\ groups[1].cs # groups[2].cs
    /\ ret = groups[1].cs

\* C2: a search_element call returns the first element of the collection whose
\* field `criterion` is exactly the string `value` (the element as the call leaves
\* it, every field but Group as it was), and the empty result, with the not-found
\* message and without raising, when no element has that field value.
C2_SearchFirstExactMatch ==
    [][call'.fn = "search_element" =>
        LET hits == Hits(elements, call'.criterion, call'.value) IN
        /\ exc' = "none"
        /\ IF hits = {}
           THEN /\ ret' = EmptyDict
                /\ out' = <<"Prvek nebyl nalezen.">>
                /\ elements' = elements
           ELSE /\ ret' = elements'[Least(hits)]
                /\ \A f \in DOMAIN elements[Least(hits)] \ {"Group"} :
                       f \in DOMAIN ret' /\ ret'[f] = elements[Least(hits)][f]]_vars

\* a search by Group "1" on a collection with two such elements returned the first
C2_Witness ==
    /\ call.fn = "search_element"
    /\ call.criterion = "Group"
    /\ call.value = "1"
    /\ Len(elements) = 2
    /\ Hits(elements, "Group", "1") = {1, 2}
    /\ ret = elements[1]

\* a search for AtomicNumber "3" found nothing in a collection that stores "03"
C2_PaddedNumberNotMatched ==
    /\ call.fn = "search_element"
    /\ call.criterion = "AtomicNumber"
    /\ call.value = "3"
    /\ Hits(elements, "AtomicNumber", "03") # {}
    /\ ret = EmptyDict

\* C3, as claimed: once a search_element call has stored an element's Group, a
\* later call that matches that element returns the same Group and does not call
\* find_group, whatever label was stored.
C3_Original ==
    [][\A i \in cached :
        (/\ call'.fn = "search_element"
         /\ Hits(elements, call'.criterion, call'.value) # {}
         /\ Least(Hits(elements, call'.criterion, call'.value)) = i)
        => /\ exc' = "none"
           /\ findCalls' = 0
           /\ ret'["Group"] = elements[i]["Group"]]_vars

\* C3, amended: the same, for an element whose stored Group is not the empty string.
C3_CachedGroupKept ==
    [][\A i \in cached :
        (/\ call'.fn = "search_element"
         /\ elements[i]["Group"] # ""
         /\ Hits(elements, call'.criterion, call'.value) # {}
         /\ Least(Hits(elements, call'.criterion, call'.value)) = i)
        => /\ exc' = "none"
           /\ findCalls' = 0
           /\ ret'["Group"] = elements[i]["Group"]]_vars

\* a later search returned a cached element with its stored Group although the group
\* table in use now gives its symbol another label
C3_Witness ==
    /\ call.fn = "search_element"
    /\ findCalls = 0
    /\ \E i \in cached :
        /\ ret = elements[i]
        /\ ret["Group"] # ""
        /\ find_group(groups, ret["Symbol"]) # ret["Group"]

\* every field the data model requires is there; Group may be absent
WellFormed(elems) ==
    \A i \in 1..Len(elems) : AllFields \ {"Group"} \subseteq DOMAIN elems[i]

\* the field a calculate_average_mass call filters on, and the value wanted
FilterField(c) == IF Truthy(c.group) THEN "Group" ELSE "Period"
FilterValue(c) == IF Truthy(c.group) THEN c.group ELSE c.period

\* C4, as claimed: with both group and period, with neither, and with a group or
\* period that no element has, calculate_average_mass returns 0.0 and raises
\* nothing; in the first two cases it reads no element.
C4_Original ==
    (call.fn = "calculate_average_mass" /\ WellFormed(elements)) =>
        LET both == Truthy(call.group) /\ Truthy(call.period)
            neither == ~Truthy(call.group) /\ ~Truthy(call.period)
        IN  /\ (both \/ neither) => (exc = "none" /\ ret = Zero /\ scanned = 0)
            /\ (~both /\ ~neither /\ Hits(elements, FilterField(call), FilterValue(call)) = {})
                  => (exc = "none" /\ ret = Zero)

RECURSIVE TenThousandths(_, _)
\* the sum of the masses of the elements of a set of indices, in units of 0.0001
TenThousandths(elems, S) ==
    IF S = {} THEN 0
    ELSE LET i == CHOOSE j \in S : TRUE
             mass == float(elems[i]["AtomicMass"])
         IN  mass.m * Pow10(4 - mass.e) + TenThousandths(elems, S \ {i})

\* C5, as claimed: with exactly one of group and period and at least one element
\* of that Group (Period), calculate_average_mass returns the sum of the masses
\* of exactly those elements divided by their count.
C5_Original ==
    (/\ call.fn = "calculate_average_mass"
     /\ WellFormed(elements)
     /\ Truthy(call.group) # Truthy(call.period)
     /\ Hits(elements, FilterField(call), FilterValue(call)) # {})
    => LET hits == Hits(elements, FilterField(call), FilterValue(call)) IN
       /\ exc = "none"
       /\ ret.num * Cardinality(hits) * Pow10(4) = ret.den * TenThousandths(elements, hits)

\* the symbols asked for: the typed lines without their surrounding blanks
Requested(lines) == {strip(lines[k]) : k \in 1..Len(lines)}

\* the k-th least member of a set of indices
Nth(S, k) == CHOOSE i \in S : Cardinality({j \in S : j <= i}) = k

\* C6: export_to_json writes exactly the elements whose Symbol was asked for, each
\* once and whole, in the order of the collection; a symbol of no element adds
\* nothing and a symbol asked for twice adds its element once.
C6_ExportSelectsInCollectionOrder ==
    call.fn = "export_to_json" =>
        /\ exc \in {"none", "OSError"}
        /\ exc = "none" =>
            LET wanted == {i \in 1..Len(elements) :
                              elements[i]["Symbol"] \in Requested(call.lines)}
            IN  /\ Len(doc) = Cardinality(wanted)
                /\ \A k \in 1..Len(doc) : doc[k] = elements[Nth(wanted, k)]

\* lithium was asked for before hydrogen, and hydrogen, first in the collection,
\* was written first
C6_Witness ==
    /\ call.fn = "export_to_json"
    /\ exc = "none"
    /\ call.lines = <<" Li ", "H">>
    /\ Len(doc) = 2
    /\ doc[1]["Symbol"] = "H"
    /\ doc[2]["Symbol"] = "Li"

\* the positions of the newlines of a text
Newlines(text) == {i \in 1..Len(text) : SubSeq(text, i, i) = "\n"}

\* the lines of a text, each ended by a newline (what follows the last newline
\* is no line)
SplitLines(text) ==
    LET ends == Newlines(text) IN
    [k \in 1..Cardinality(ends) |->
        SubSeq(text, IF k = 1 THEN 1 ELSE Nth(ends, k - 1) + 1, Nth(ends, k) - 1)]

\* C8: the document of generate_markdown is the top-level heading and an empty
\* line, then for each element of its input, in order, four lines: the heading
\* "## Symbol (Element)", the two bullets of AtomicNumber and AtomicMass, and an
\* empty line.  For an empty input it is the heading alone.
C8_MarkdownSections ==
    (call.fn = "generate_markdown" /\ exc = "none") =>
        LET lines == SplitLines(doc)
            input == call.selected
        IN  /\ Len(doc) \in Newlines(doc)
            /\ Len(lines) = 2 + 4 * Len(input)
            /\ lines[1] = "# Prehled chemickych prvku"
            /\ lines[2] = ""
            /\ \A i \in 1..Len(input) :
                /\ lines[4 * i - 1] =
                       "## " \o input[i]["Symbol"] \o " (" \o input[i]["Element"] \o ")"
                /\ lines[4 * i] = "- Protonove cislo: " \o input[i]["AtomicNumber"]
                /\ lines[4 * i + 1] =
                       "- Relativni atomova hmotnost: " \o input[i]["AtomicMass"]
                /\ lines[4 * i + 2] = ""

\* a document of two sections was written
C8_Witness ==
    /\ call.fn = "generate_markdown"
    /\ exc = "none"
    /\ Len(call.selected) = 2
    /\ Len(SplitLines(doc)) = 10

\* a document of the heading alone was written for an empty input
C8_EmptyInput ==
    /\ call.fn = "generate_markdown"
    /\ exc = "none"
    /\ call.selected = <<>>
    /\ doc = "# Prehled chemickych prvku\n\n"

\* C9: in a session the group table never changes and the collection changes only
\* where a search_element call, having matched an element whose Group was absent
\* or empty, set that element's Group: its other fields, the other elements, their
\* number and order stay, and the other four operations change nothing.
C9_OnlySearchSetsGroup ==
    [][/\ groups' = groups
       /\ Len(elements') = Len(elements)
       /\ \A i \in 1..Len(elements) :
            elements'[i] # elements[i] =>
                /\ call'.fn = "search_element"
                /\ Hits(elements, call'.criterion, call'.value) # {}
                /\ i = Least(Hits(elements, call'.criterion, call'.value))
                /\ Get(elements[i], "Group") \in {None, ""}
                /\ DOMAIN elements'[i] = DOMAIN elements[i] \cup {"Group"}
                /\ \A f \in DOMAIN elements[i] \ {"Group"} : elements'[i][f] = elements[i][f]
       /\ call'.fn \in {"calculate_average_mass", "generate_html",
                        "export_to_json", "generate_markdown"} => elements' = elements]_vars

\* a search of the session stored the Group of the element it matched
C9_Witness ==
    /\ pc = "menu"
    /\ call.fn = "search_element"
    /\ findCalls = 1
    /\ \E i \in cached : ret = elements[i] /\ "Group" \in DOMAIN elements[i]

\* what search_element returns when nothing matches
not_found_result == search_element(<<>>, <<>>, "Symbol", "").ret

\* C10: a search_element call that matched an element never returns the value it
\* returns when nothing matches.
C10_MatchIsNotTheNotFoundResult ==
    [][(/\ call'.fn = "search_element"
        /\ Hits(elements, call'.criterion, call'.value) # {}
        /\ exc' = "none")
       => ret' # not_found_result]_vars

\* a search matched in a collection that also holds an element with no fields
C10_Witness ==
    /\ call.fn = "search_element"
    /\ \E i \in 1..Len(elements) : elements[i] = EmptyDict
    /\ \E i \in 1..Len(elements) : elements[i] # EmptyDict /\ ret = elements[i]

\* C7, as claimed: the loop of main is left only by the choice '0' or by a failed
\* file operation.
C7_Original ==
    pc # "menu" =>
        \/ pc = "quit" /\ call.fn = "main" /\ call.choice = "0"
        \/ pc = "crashed" /\ exc = "OSError"

====
